---- MODULE Spec2Model ----
(***************************************************************************)
(* Startup orchestration of the Prometheus custom-metrics adapter          *)
(* (cmd/adapter/app/start.go): makeHTTPClient and                          *)
(* PrometheusAdapterServerOptions.RunCustomMetricsAdapterServer, one       *)
(* action per statement group of the runner, together with the stop        *)
(* channel and the background loops the constructed components own.        *)
(***************************************************************************)
EXTENDS Integers, Sequences, FiniteSets, TLC

\* How many periods a background loop is followed for.
MaxTicks == 2

\* How many times the hosting process closes the stop signal.
MaxCloses == 2

\* Option defaults, in minutes (start.go:45-48).
DefaultMetricsRelistInterval == 10
DefaultRateInterval == 5
DefaultDiscoveryInterval == 10

(***************************************************************************)
(* Values                                                                  *)
(***************************************************************************)
Nil == [kind |-> "nil"]
NoErr == "nil"

\* The error sites of the two functions, named after the taxonomy of the
\* specification; the code distinguishes them by message only.
ErrConfig == "ConfigError"
ErrConfigConflict == "ConfigConflict"
ErrCredentialLoad == "CredentialLoadError"
ErrTransport == "TransportError"
ErrDiscoveryClient == "DiscoveryClientError"
ErrMapperInit == "MapperInitError"
ErrInvalidURL == "InvalidURL"
ErrServerNew == "ServerNewError"
ErrServe == "ServeError"
ErrComplete == "CompleteError"
ErrValidate == "ValidateError"

\* http.DefaultClient
DefaultClient == [kind |-> "httpClient", transport |-> [kind |-> "defaultTransport"]]

(***************************************************************************)
(* The files a kubeconfig path may name.  A path that is not listed here   *)
(* does not exist.                                                         *)
(***************************************************************************)
GoodKubeConfig == "/etc/adapter/good.kubeconfig"
BadTLSKubeConfig == "/etc/adapter/badtls.kubeconfig"
MissingKubeConfig == "/etc/adapter/missing.kubeconfig"

KubeConfigPaths == {"", GoodKubeConfig, BadTLSKubeConfig, MissingKubeConfig}

FileSystem(path) ==
    IF path = GoodKubeConfig THEN "ok"
    ELSE IF path = BadTLSKubeConfig THEN "badTLS"
    ELSE "missing"

\* loader.ClientConfig() with ExplicitPath = path: the rest.Config of the
\* file, or an error when the file is missing or malformed.
LoadKubeConfig(path) ==
    IF FileSystem(path) = "missing"
    THEN [conf |-> Nil, err |-> TRUE]
    ELSE [conf |-> [kind |-> "restConfig", source |-> "kubeconfig",
                    path |-> path, tls |-> FileSystem(path)],
          err |-> FALSE]

\* rest.InClusterConfig() in an ambient environment inCluster, one of
\* "absent", "ok", "badTLS".
InClusterConfig(inCluster) ==
    IF inCluster = "absent"
    THEN [conf |-> Nil, err |-> TRUE]
    ELSE [conf |-> [kind |-> "restConfig", source |-> "inCluster",
                    path |-> "", tls |-> inCluster],
          err |-> FALSE]

\* rest.TransportFor(conf): fails on invalid TLS material.
TransportFor(conf) ==
    IF conf.tls = "ok"
    THEN [tr |-> [kind |-> "transport", from |-> conf], err |-> FALSE]
    ELSE [tr |-> Nil, err |-> TRUE]

(***************************************************************************)
(* makeHTTPClient(inClusterAuth, kubeConfigPath), in the ambient           *)
(* environment inCluster.  io is the sequence of external operations the   *)
(* call performs.                                                          *)
(***************************************************************************)
IOPromLoadKubeConfig == "prometheus:loader.ClientConfig"
IOPromInCluster == "prometheus:rest.InClusterConfig"
IOPromTransportFor == "prometheus:rest.TransportFor"

\* makeHTTPClient without the check of start.go:98.
makeHTTPClient_NoConflictCheck(inClusterAuth, kubeConfigPath, inCluster) ==
    IF ~inClusterAuth /\ kubeConfigPath = ""
    THEN [client |-> DefaultClient, err |-> NoErr, io |-> <<>>]
    ELSE LET viaFile == kubeConfigPath # ""
             auth == IF viaFile THEN LoadKubeConfig(kubeConfigPath)
                     ELSE InClusterConfig(inCluster)
             ioAuth == IF viaFile THEN <<IOPromLoadKubeConfig>> ELSE <<IOPromInCluster>>
         IN IF auth.err
            THEN [client |-> Nil, err |-> ErrCredentialLoad, io |-> ioAuth]
            ELSE LET t == TransportFor(auth.conf)
                 IN IF t.err
                    THEN [client |-> Nil, err |-> ErrTransport,
                          io |-> Append(ioAuth, IOPromTransportFor)]
                    ELSE [client |-> [kind |-> "httpClient", transport |-> t.tr],
                          err |-> NoErr,
                          io |-> Append(ioAuth, IOPromTransportFor)]

\* makeHTTPClient without the shortcut of start.go:103.
makeHTTPClient_NoDefault(inClusterAuth, kubeConfigPath, inCluster) ==
    IF inClusterAuth /\ kubeConfigPath # ""
    THEN [client |-> Nil, err |-> ErrConfigConflict, io |-> <<>>]
    ELSE LET viaFile == kubeConfigPath # ""
             auth == IF viaFile THEN LoadKubeConfig(kubeConfigPath)
                     ELSE InClusterConfig(inCluster)
             ioAuth == IF viaFile THEN <<IOPromLoadKubeConfig>> ELSE <<IOPromInCluster>>
         IN IF auth.err
            THEN [client |-> Nil, err |-> ErrCredentialLoad, io |-> ioAuth]
            ELSE LET t == TransportFor(auth.conf)
                 IN IF t.err
                    THEN [client |-> Nil, err |-> ErrTransport,
                          io |-> Append(ioAuth, IOPromTransportFor)]
                    ELSE [client |-> [kind |-> "httpClient", transport |-> t.tr],
                          err |-> NoErr,
                          io |-> Append(ioAuth, IOPromTransportFor)]

\* makeHTTPClient with the test of start.go:108 inverted.
makeHTTPClient_WrongSource(inClusterAuth, kubeConfigPath, inCluster) ==
    IF inClusterAuth /\ kubeConfigPath # ""
    THEN [client |-> Nil, err |-> ErrConfigConflict, io |-> <<>>]
    ELSE IF ~inClusterAuth /\ kubeConfigPath = ""
    THEN [client |-> DefaultClient, err |-> NoErr, io |-> <<>>]
    ELSE LET viaFile == kubeConfigPath = ""
             auth == IF viaFile THEN LoadKubeConfig(kubeConfigPath)
                     ELSE InClusterConfig(inCluster)
             ioAuth == IF viaFile THEN <<IOPromLoadKubeConfig>> ELSE <<IOPromInCluster>>
         IN IF auth.err
            THEN [client |-> Nil, err |-> ErrCredentialLoad, io |-> ioAuth]
            ELSE LET t == TransportFor(auth.conf)
                 IN IF t.err
                    THEN [client |-> Nil, err |-> ErrTransport,
                          io |-> Append(ioAuth, IOPromTransportFor)]
                    ELSE [client |-> [kind |-> "httpClient", transport |-> t.tr],
                          err |-> NoErr,
                          io |-> Append(ioAuth, IOPromTransportFor)]

makeHTTPClient(inClusterAuth, kubeConfigPath, inCluster) ==
    IF inClusterAuth /\ kubeConfigPath # ""
    THEN [client |-> Nil, err |-> ErrConfigConflict, io |-> <<>>]
    ELSE IF ~inClusterAuth /\ kubeConfigPath = ""
    THEN [client |-> DefaultClient, err |-> NoErr, io |-> <<>>]
    ELSE LET viaFile == kubeConfigPath # ""
             auth == IF viaFile THEN LoadKubeConfig(kubeConfigPath)
                     ELSE InClusterConfig(inCluster)
             ioAuth == IF viaFile THEN <<IOPromLoadKubeConfig>> ELSE <<IOPromInCluster>>
         IN IF auth.err
            THEN [client |-> Nil, err |-> ErrCredentialLoad, io |-> ioAuth]
            ELSE LET t == TransportFor(auth.conf)
                 IN IF t.err
                    THEN [client |-> Nil, err |-> ErrTransport,
                          io |-> Append(ioAuth, IOPromTransportFor)]
                    ELSE [client |-> [kind |-> "httpClient", transport |-> t.tr],
                          err |-> NoErr,
                          io |-> Append(ioAuth, IOPromTransportFor)]

(***************************************************************************)
(* net/url: Parse and URL.String on strings given as sequences of          *)
(* one-character strings.  The inputs carry no userinfo, no bracketed      *)
(* host and no percent escape, so those branches of net/url are not        *)
(* reached and are left out.                                               *)
(***************************************************************************)
LowerLetters == {"a", "c", "h", "l", "o", "p", "s", "t", "x"}
UpperLetters == {"H", "P", "S", "T"}
Digits == {"0", "1", "9"}
CTLChars == {"<LF>"}

ToLowerChar(c) ==
    CASE c = "H" -> "h" [] c = "P" -> "p" [] c = "S" -> "s" [] c = "T" -> "t"
      [] OTHER -> c

ToLower(s) == [i \in 1..Len(s) |-> ToLowerChar(s[i])]

\* strings.IndexByte / strings.LastIndexByte, 0 when absent.
IndexOf(s, c) ==
    IF \E i \in 1..Len(s) : s[i] = c
    THEN CHOOSE i \in 1..Len(s) : s[i] = c /\ \A j \in 1..(i - 1) : s[j] # c
    ELSE 0

LastIndexOf(s, c) ==
    IF \E i \in 1..Len(s) : s[i] = c
    THEN CHOOSE i \in 1..Len(s) : s[i] = c /\ \A j \in (i + 1)..Len(s) : s[j] # c
    ELSE 0

Count(s, c) == Cardinality({i \in 1..Len(s) : s[i] = c})

HasPrefix(s, p) == Len(s) >= Len(p) /\ SubSeq(s, 1, Len(p)) = p

stringContainsCTLByte(s) == \E i \in 1..Len(s) : s[i] \in CTLChars

\* getscheme, scanning from position i.
RECURSIVE getscheme(_, _)
getscheme(s, i) ==
    IF i > Len(s) THEN [scheme |-> <<>>, rest |-> s, err |-> FALSE]
    ELSE IF s[i] \in LowerLetters \cup UpperLetters THEN getscheme(s, i + 1)
    ELSE IF s[i] \in Digits \cup {"+", "-", "."}
         THEN IF i = 1 THEN [scheme |-> <<>>, rest |-> s, err |-> FALSE]
              ELSE getscheme(s, i + 1)
    ELSE IF s[i] = ":"
         THEN IF i = 1 THEN [scheme |-> <<>>, rest |-> <<>>, err |-> TRUE]
              ELSE [scheme |-> SubSeq(s, 1, i - 1),
                    rest |-> SubSeq(s, i + 1, Len(s)), err |-> FALSE]
    ELSE [scheme |-> <<>>, rest |-> s, err |-> FALSE]

validOptionalPort(port) ==
    \/ port = <<>>
    \/ /\ port[1] = ":"
       /\ \A i \in 2..Len(port) : port[i] \in Digits

\* parseHost for a host without brackets and escapes.
parseHostOK(host) ==
    LET i == LastIndexOf(host, ":")
    IN i = 0 \/ validOptionalPort(SubSeq(host, i, Len(host)))

ParseError == [ok |-> FALSE, scheme |-> <<>>, opaque |-> <<>>, host |-> <<>>,
               path |-> <<>>, omitHost |-> FALSE, forceQuery |-> FALSE,
               rawQuery |-> <<>>, fragment |-> <<>>]

\* url.Parse(rawURL)
Parse(rawURL) ==
    LET h == IndexOf(rawURL, "#")
        u == IF h > 0 THEN SubSeq(rawURL, 1, h - 1) ELSE rawURL
        frag == IF h > 0 THEN SubSeq(rawURL, h + 1, Len(rawURL)) ELSE <<>>
        gs == getscheme(u, 1)
        scheme == ToLower(gs.scheme)
        rest0 == gs.rest
        forceQuery == /\ Len(rest0) > 0
                      /\ rest0[Len(rest0)] = "?"
                      /\ Count(rest0, "?") = 1
        q == IndexOf(rest0, "?")
        rest1 == IF forceQuery THEN SubSeq(rest0, 1, Len(rest0) - 1)
                 ELSE IF q > 0 THEN SubSeq(rest0, 1, q - 1)
                 ELSE rest0
        rawQuery == IF ~forceQuery /\ q > 0
                    THEN SubSeq(rest0, q + 1, Len(rest0)) ELSE <<>>
        slash1 == IndexOf(rest1, "/")
        segment == IF slash1 > 0 THEN SubSeq(rest1, 1, slash1 - 1) ELSE rest1
        hasAuthority == HasPrefix(rest1, <<"/", "/">>)
                        /\ (scheme # <<>> \/ ~HasPrefix(rest1, <<"/", "/", "/">>))
        auth0 == SubSeq(rest1, 3, Len(rest1))
        slash2 == IndexOf(auth0, "/")
        authority == IF slash2 > 0 THEN SubSeq(auth0, 1, slash2 - 1) ELSE auth0
        rest2 == IF slash2 > 0 THEN SubSeq(auth0, slash2, Len(auth0)) ELSE <<>>
        base == [ok |-> TRUE, scheme |-> scheme, opaque |-> <<>>, host |-> <<>>,
                 path |-> <<>>, omitHost |-> FALSE, forceQuery |-> forceQuery,
                 rawQuery |-> rawQuery, fragment |-> frag]
    IN IF stringContainsCTLByte(u) \/ stringContainsCTLByte(frag) THEN ParseError
       ELSE IF u = <<"*">> THEN [base EXCEPT !.path = <<"*">>,
                                            !.forceQuery = FALSE, !.rawQuery = <<>>]
       ELSE IF gs.err THEN ParseError
       ELSE IF ~HasPrefix(rest1, <<"/">>) /\ scheme # <<>>
            THEN [base EXCEPT !.opaque = rest1]
       ELSE IF ~HasPrefix(rest1, <<"/">>) /\ IndexOf(segment, ":") > 0
            THEN ParseError
       ELSE IF hasAuthority
            THEN IF parseHostOK(authority)
                 THEN [base EXCEPT !.host = authority, !.path = rest2]
                 ELSE ParseError
       ELSE [base EXCEPT !.path = rest1,
                         !.omitHost = (scheme # <<>> /\ HasPrefix(rest1, <<"/">>))]

\* (*URL).String()
URLString(u) ==
    LET schemePart == IF u.scheme # <<>> THEN u.scheme \o <<":">> ELSE <<>>
        slashes == IF (u.scheme # <<>> \/ u.host # <<>>)
                      /\ ~(u.omitHost /\ u.host = <<>>)
                      /\ (u.host # <<>> \/ u.path # <<>>)
                   THEN <<"/", "/">> ELSE <<>>
        hostPart == IF u.scheme # <<>> \/ u.host # <<>> THEN slashes \o u.host ELSE <<>>
        sep == IF u.path # <<>> /\ u.path[1] # "/" /\ u.host # <<>> THEN <<"/">> ELSE <<>>
        firstSlash == IndexOf(u.path, "/")
        seg == IF firstSlash > 0 THEN SubSeq(u.path, 1, firstSlash - 1) ELSE u.path
        dot == IF schemePart \o hostPart \o sep = <<>> /\ IndexOf(seg, ":") > 0
               THEN <<".", "/">> ELSE <<>>
        body == IF u.opaque # <<>> THEN schemePart \o u.opaque
                ELSE schemePart \o hostPart \o sep \o dot \o u.path
        query == IF u.forceQuery \/ u.rawQuery # <<>> THEN <<"?">> \o u.rawQuery ELSE <<>>
        fragment == IF u.fragment # <<>> THEN <<"#">> \o u.fragment ELSE <<>>
    IN body \o query \o fragment

\* "https://localhost", the default of start.go:47
DefaultPrometheusURL ==
    <<"h", "t", "t", "p", "s", ":", "/", "/", "l", "o", "c", "a", "l", "h", "o", "s", "t">>

\* The values --prometheus-url takes here: the default, the default with a
\* query, an upper-case scheme, a control character, a missing scheme.
PrometheusURLs ==
    { DefaultPrometheusURL,
      DefaultPrometheusURL \o <<"?", "t", "=", "1">>,
      <<"H", "T", "T", "P", ":", "/", "/", "p", ":", "9", "0">>,
      <<"h", "t", "t", "p", ":", "/", "/", "p", "<LF>", "x">>,
      <<":", "/", "/", "p">> }

(***************************************************************************)
(* State                                                                   *)
(***************************************************************************)
VARIABLES
    flags,       \* the flags given on the command line
    opts,        \* the PrometheusAdapterServerOptions the runner is called on
    calls,       \* the calls the command handler has made, in order
    env,         \* what the collaborators outside this file answer
    pc,          \* the statement RunCustomMetricsAdapterServer is at
    trace,       \* the statements it has executed, in order
    result,      \* the error it returned, NoErr for nil, "running" before
    ioLog,       \* the external operations performed, in order
    objs,        \* the local variables of the runner
    loops,       \* the background loops of the components it constructed
    stopClosed,  \* whether stopCh is closed
    closeCalls,  \* how many times the hosting process has closed the stop signal
    listener,    \* the HTTP listener: "none", "listening", "closed"
    shutdowns    \* how many times the listener's shutdown has run

vars == <<flags, opts, calls, env, pc, trace, result, ioLog, objs, loops, stopClosed,
          closeCalls, listener, shutdowns>>

LoopNames == {"discoveryRefresh", "relist", "httpServing"}

IOClusterLoadKubeConfig == "lister:loader.ClientConfig"
IOClusterInCluster == "lister:rest.InClusterConfig"
IODiscoveryCall == "lister:discovery"

\* The operations that go over the network.
NetworkIO == {IODiscoveryCall}

Options ==
    [RemoteKubeConfigFile : KubeConfigPaths,
     MetricsRelistInterval : {DefaultMetricsRelistInterval, 3},
     RateInterval : {DefaultRateInterval, 3},
     DiscoveryInterval : {DefaultDiscoveryInterval, 3},
     PrometheusURL : PrometheusURLs,
     PrometheusAuthInCluster : BOOLEAN,
     PrometheusAuthConf : KubeConfigPaths,
     LabelPrefix : {"", "kube_"}]

\* The options as NewCommandStartPrometheusAdapterServer makes them, the
\* fields it does not name at their zero values.
DefaultOptions ==
    [RemoteKubeConfigFile |-> "",
     MetricsRelistInterval |-> DefaultMetricsRelistInterval,
     RateInterval |-> DefaultRateInterval,
     DiscoveryInterval |-> DefaultDiscoveryInterval,
     PrometheusURL |-> DefaultPrometheusURL,
     PrometheusAuthInCluster |-> FALSE,
     PrometheusAuthConf |-> "",
     LabelPrefix |-> ""]

\* The value of a flag: the one given on the command line, else the default
\* the flag was declared with.  A flag is the empty set when it is not given
\* and the set of its value when it is.
FlagValue(given, default) == IF given = {} THEN default ELSE CHOOSE v \in given : TRUE

\* The flag set with --rate-interval bound to MetricsRelistInterval as well.
ApplyFlags_SharedTarget(o, f) ==
    [RemoteKubeConfigFile |-> FlagValue(f.lister_kubeconfig, o.RemoteKubeConfigFile),
     MetricsRelistInterval |->
         FlagValue(f.rate_interval,
                   FlagValue(f.metrics_relist_interval, o.MetricsRelistInterval)),
     RateInterval |-> FlagValue(f.rate_interval, o.RateInterval),
     DiscoveryInterval |-> FlagValue(f.discovery_interval, o.DiscoveryInterval),
     PrometheusURL |-> FlagValue(f.prometheus_url, o.PrometheusURL),
     PrometheusAuthInCluster |->
         FlagValue(f.prometheus_auth_incluster, o.PrometheusAuthInCluster),
     PrometheusAuthConf |-> FlagValue(f.prometheus_auth_config, o.PrometheusAuthConf),
     LabelPrefix |-> FlagValue(f.label_prefix, o.LabelPrefix)]

\* The eight flags of start.go:74-91 parsed into the options o: each is bound
\* to one field, with the field's value as its default.
ApplyFlags(o, f) ==
    [RemoteKubeConfigFile |-> FlagValue(f.lister_kubeconfig, o.RemoteKubeConfigFile),
     MetricsRelistInterval |->
         FlagValue(f.metrics_relist_interval, o.MetricsRelistInterval),
     RateInterval |-> FlagValue(f.rate_interval, o.RateInterval),
     DiscoveryInterval |-> FlagValue(f.discovery_interval, o.DiscoveryInterval),
     PrometheusURL |-> FlagValue(f.prometheus_url, o.PrometheusURL),
     PrometheusAuthInCluster |->
         FlagValue(f.prometheus_auth_incluster, o.PrometheusAuthInCluster),
     PrometheusAuthConf |-> FlagValue(f.prometheus_auth_config, o.PrometheusAuthConf),
     LabelPrefix |-> FlagValue(f.label_prefix, o.LabelPrefix)]

Given(values) == {{}} \cup {{v} : v \in values}

\* The command lines of the runs followed for the runner: every kubeconfig
\* path, URL and backend auth mode, the intervals and the prefix left alone.
RunnerFlags ==
    [lister_kubeconfig : Given(KubeConfigPaths \ {""}),
     metrics_relist_interval : {{}},
     rate_interval : {{}},
     discovery_interval : {{}},
     prometheus_url : Given(PrometheusURLs \ {DefaultPrometheusURL}),
     prometheus_auth_incluster : Given({TRUE}),
     prometheus_auth_config : Given(KubeConfigPaths \ {""}),
     label_prefix : {{}}]

\* The command lines followed for the command: every flag given or not.
CommandFlags ==
    [lister_kubeconfig : Given({GoodKubeConfig}),
     metrics_relist_interval : Given({3}),
     rate_interval : Given({3}),
     discovery_interval : Given({3}),
     prometheus_url : Given({DefaultPrometheusURL \o <<"?", "t", "=", "1">>}),
     prometheus_auth_incluster : Given({TRUE}),
     prometheus_auth_config : Given({GoodKubeConfig}),
     label_prefix : Given({"kube_"})]

\* The environments of the runs followed for the runner: o.Complete and
\* o.Validate pass.
Environments ==
    [completeOK : {TRUE},
     validateOK : {TRUE},
     configOK : BOOLEAN,
     inCluster : {"absent", "ok", "badTLS"},
     discoveryOK : BOOLEAN,
     serverNewOK : BOOLEAN,
     listenOK : BOOLEAN]

\* The environments followed for the command: o.Complete and o.Validate
\* pass or fail, the collaborators of the runner answer.
CommandEnvironments ==
    [completeOK : BOOLEAN,
     validateOK : BOOLEAN,
     configOK : {TRUE},
     inCluster : {"ok"},
     discoveryOK : {TRUE},
     serverNewOK : {TRUE},
     listenOK : {TRUE}]

NoObjs ==
    [config |-> Nil, clientConfig |-> Nil, discoveryClient |-> Nil,
     dynamicMapper |-> Nil, clientPool |-> Nil, baseURL |-> Nil,
     promHTTPClient |-> Nil, genericPromClient |-> Nil,
     instrumentedGenericPromClient |-> Nil, promClient |-> Nil,
     cmProvider |-> Nil, server |-> Nil]

\* The command is constructed, its flags are parsed and RunE is about to run.
InitWith(flagChoices, environments) ==
    /\ flags \in flagChoices
    /\ opts = ApplyFlags(DefaultOptions, flags)
    /\ opts \in Options
    /\ calls = <<>>
    /\ env \in environments
    /\ pc = "Complete"
    /\ trace = <<>>
    /\ result = "running"
    /\ ioLog = <<>>
    /\ objs = NoObjs
    /\ loops = [l \in LoopNames |-> [state |-> "none", stop |-> "unset", ticks |-> 0]]
    /\ stopClosed = FALSE
    /\ closeCalls = 0
    /\ listener = "none"
    /\ shutdowns = 0

Init == InitWith(RunnerFlags, Environments)

InitCommand == InitWith(CommandFlags, CommandEnvironments)

\* return err
Return(err) ==
    /\ pc' = "returned"
    /\ result' = err

\* fall through to the next statement
Goto(next) ==
    /\ pc' = next
    /\ result' = result

(***************************************************************************)
(* RunE of the command                                                     *)
(***************************************************************************)
HandlerUnchanged ==
    UNCHANGED <<flags, opts, env, trace, ioLog, objs, loops, stopClosed, closeCalls,
                listener, shutdowns>>

\* RunE returns err without having called the runner.
Reject(err) ==
    /\ pc' = "rejected"
    /\ result' = err

\* if err := o.Complete(); err != nil { return err }
Complete ==
    /\ pc = "Complete"
    /\ calls' = Append(calls, "Complete")
    /\ IF env.completeOK THEN Goto("Validate") ELSE Reject(ErrComplete)
    /\ HandlerUnchanged

\* o.Validate(args) with its error dropped.
Validate_IgnoreErr ==
    /\ pc = "Validate"
    /\ calls' = Append(calls, "Validate")
    /\ Goto("CallRun")
    /\ HandlerUnchanged

\* if err := o.Validate(args); err != nil { return err }
Validate ==
    /\ pc = "Validate"
    /\ calls' = Append(calls, "Validate")
    /\ IF env.validateOK THEN Goto("CallRun") ELSE Reject(ErrValidate)
    /\ HandlerUnchanged

\* o.RunCustomMetricsAdapterServer(stopCh): RunE returns what it returns.
CallRun ==
    /\ pc = "CallRun"
    /\ calls' = Append(calls, "RunCustomMetricsAdapterServer")
    /\ Goto("Config")
    /\ HandlerUnchanged

(***************************************************************************)
(* RunCustomMetricsAdapterServer, statement by statement                   *)
(***************************************************************************)

\* config, _ := o.Config(): the error of start.go:132 dropped.
Config_IgnoreErr ==
    /\ pc = "Config"
    /\ trace' = Append(trace, "Config")
    /\ objs' = [objs EXCEPT !.config = [kind |-> "config", EnableMetrics |-> TRUE]]
    /\ Goto("ClientConfig")
    /\ UNCHANGED <<flags, opts, calls, env, ioLog, loops, stopClosed, closeCalls,
                   listener, shutdowns>>

\* o.Config() without the assignment of start.go:136.
Config_NoMetrics ==
    /\ pc = "Config"
    /\ trace' = Append(trace, "Config")
    /\ IF env.configOK
       THEN /\ objs' = [objs EXCEPT !.config =
                            [kind |-> "config", EnableMetrics |-> FALSE]]
            /\ Goto("ClientConfig")
       ELSE /\ objs' = objs
            /\ Return(ErrConfig)
    /\ UNCHANGED <<flags, opts, calls, env, ioLog, loops, stopClosed, closeCalls,
                   listener, shutdowns>>

\* o.Config(); config.GenericConfig.EnableMetrics = true
Config ==
    /\ pc = "Config"
    /\ trace' = Append(trace, "Config")
    /\ IF env.configOK
       THEN /\ objs' = [objs EXCEPT !.config =
                            [kind |-> "config", EnableMetrics |-> TRUE]]
            /\ Goto("ClientConfig")
       ELSE /\ objs' = objs
            /\ Return(ErrConfig)
    /\ UNCHANGED <<flags, opts, calls, env, ioLog, loops, stopClosed, closeCalls,
                   listener, shutdowns>>

\* The lister client config with a fallback to the in-cluster environment
\* when the explicit file does not load.
ListerClientConfig_Fallback(path, inCluster) ==
    IF path # ""
    THEN LET r == LoadKubeConfig(path)
         IN IF r.err
            THEN LET f == InClusterConfig(inCluster)
                 IN [conf |-> f.conf, err |-> f.err,
                     io |-> <<IOClusterLoadKubeConfig, IOClusterInCluster>>]
            ELSE [conf |-> r.conf, err |-> r.err, io |-> <<IOClusterLoadKubeConfig>>]
    ELSE LET r == InClusterConfig(inCluster)
         IN [conf |-> r.conf, err |-> r.err, io |-> <<IOClusterInCluster>>]

\* The if/else of start.go:139-146.
ListerClientConfig(path, inCluster) ==
    IF path # ""
    THEN LET r == LoadKubeConfig(path)
         IN [conf |-> r.conf, err |-> r.err, io |-> <<IOClusterLoadKubeConfig>>]
    ELSE LET r == InClusterConfig(inCluster)
         IN [conf |-> r.conf, err |-> r.err, io |-> <<IOClusterInCluster>>]

ClientConfig ==
    /\ pc = "ClientConfig"
    /\ trace' = Append(trace, "ClientConfig")
    /\ LET r == ListerClientConfig(opts.RemoteKubeConfigFile, env.inCluster)
       IN /\ ioLog' = ioLog \o r.io
          /\ IF r.err
             THEN /\ objs' = objs
                  /\ Return(ErrCredentialLoad)
             ELSE /\ objs' = [objs EXCEPT !.clientConfig = r.conf]
                  /\ Goto("DiscoveryClient")
    /\ UNCHANGED <<flags, opts, calls, env, loops, stopClosed, closeCalls, listener,
                   shutdowns>>

\* NewDiscoveryClientForConfig behind a test of stopCh that gives up with nil.
DiscoveryClient_StopAware ==
    /\ pc = "DiscoveryClient"
    /\ IF stopClosed
       THEN /\ trace' = trace
            /\ objs' = objs
            /\ Return(NoErr)
       ELSE /\ trace' = Append(trace, "DiscoveryClient")
            /\ IF TransportFor(objs.clientConfig).err
               THEN /\ objs' = objs
                    /\ Return(ErrDiscoveryClient)
               ELSE /\ objs' = [objs EXCEPT !.discoveryClient =
                                    [kind |-> "discoveryClient",
                                     config |-> objs.clientConfig]]
                    /\ Goto("RESTMapper")
    /\ UNCHANGED <<flags, opts, calls, env, ioLog, loops, stopClosed, closeCalls,
                   listener, shutdowns>>

\* discovery.NewDiscoveryClientForConfig(clientConfig): builds the REST
\* client of the configuration, which needs its transport.
DiscoveryClient ==
    /\ pc = "DiscoveryClient"
    /\ trace' = Append(trace, "DiscoveryClient")
    /\ IF TransportFor(objs.clientConfig).err
       THEN /\ objs' = objs
            /\ Return(ErrDiscoveryClient)
       ELSE /\ objs' = [objs EXCEPT !.discoveryClient =
                            [kind |-> "discoveryClient", config |-> objs.clientConfig]]
            /\ Goto("RESTMapper")
    /\ UNCHANGED <<flags, opts, calls, env, ioLog, loops, stopClosed, closeCalls,
                   listener, shutdowns>>

\* dynamicMapper, _ := NewRESTMapper(...): the error of start.go:157 dropped.
RESTMapper_IgnoreErr ==
    /\ pc = "RESTMapper"
    /\ trace' = Append(trace, "RESTMapper")
    /\ ioLog' = Append(ioLog, IODiscoveryCall)
    /\ objs' = [objs EXCEPT !.dynamicMapper =
                    [kind |-> "restMapper",
                     discoveryClient |-> objs.discoveryClient,
                     refreshInterval |-> opts.DiscoveryInterval]]
    /\ \E started \in BOOLEAN :
           loops' = [loops EXCEPT !["discoveryRefresh"] =
                        [state |-> IF started THEN "running" ELSE "none",
                         stop |-> "never", ticks |-> 0]]
    /\ Goto("ClientPool")
    /\ UNCHANGED <<flags, opts, calls, env, stopClosed, closeCalls, listener, shutdowns>>

\* dynamicmapper.NewRESTMapper(discoveryClient, ..., o.DiscoveryInterval):
\* the first discovery call is made here.  The constructor is given no stop
\* channel and the runner calls nothing on the mapper afterwards; whether the
\* constructor starts the refresh loop itself is the mapper's business, so
\* both are possible.
RESTMapper ==
    /\ pc = "RESTMapper"
    /\ trace' = Append(trace, "RESTMapper")
    /\ ioLog' = Append(ioLog, IODiscoveryCall)
    /\ IF env.discoveryOK
       THEN /\ objs' = [objs EXCEPT !.dynamicMapper =
                            [kind |-> "restMapper",
                             discoveryClient |-> objs.discoveryClient,
                             refreshInterval |-> opts.DiscoveryInterval]]
            /\ \E started \in BOOLEAN :
                   loops' = [loops EXCEPT !["discoveryRefresh"] =
                                [state |-> IF started THEN "running" ELSE "none",
                                 stop |-> "never", ticks |-> 0]]
            /\ Goto("ClientPool")
       ELSE /\ objs' = objs
            /\ loops' = loops
            /\ Return(ErrMapperInit)
    /\ UNCHANGED <<flags, opts, calls, env, stopClosed, closeCalls, listener, shutdowns>>

\* dynamic.NewClientPool(clientConfig, dynamicMapper, ...): returns no
\* error; the test of start.go:162 reads the nil err of the mapper.
ClientPool ==
    /\ pc = "ClientPool"
    /\ trace' = Append(trace, "ClientPool")
    /\ objs' = [objs EXCEPT !.clientPool =
                    [kind |-> "clientPool", config |-> objs.clientConfig,
                     mapper |-> objs.dynamicMapper]]
    /\ Goto("ParseURL")
    /\ UNCHANGED <<flags, opts, calls, env, ioLog, loops, stopClosed, closeCalls,
                   listener, shutdowns>>

\* baseURL, _ := url.Parse(o.PrometheusURL): the error of start.go:168 dropped.
ParseURL_IgnoreErr ==
    /\ pc = "ParseURL"
    /\ trace' = Append(trace, "ParseURL")
    /\ objs' = [objs EXCEPT !.baseURL = Parse(opts.PrometheusURL)]
    /\ Goto("HTTPClient")
    /\ UNCHANGED <<flags, opts, calls, env, ioLog, loops, stopClosed, closeCalls,
                   listener, shutdowns>>

\* url.Parse(o.PrometheusURL)
ParseURL ==
    /\ pc = "ParseURL"
    /\ trace' = Append(trace, "ParseURL")
    /\ LET u == Parse(opts.PrometheusURL)
       IN IF u.ok
          THEN /\ objs' = [objs EXCEPT !.baseURL = u]
               /\ Goto("HTTPClient")
          ELSE /\ objs' = objs
               /\ Return(ErrInvalidURL)
    /\ UNCHANGED <<flags, opts, calls, env, ioLog, loops, stopClosed, closeCalls,
                   listener, shutdowns>>

\* promHTTPClient, _ := makeHTTPClient(...): the error of start.go:172 dropped.
HTTPClient_IgnoreErr ==
    /\ pc = "HTTPClient"
    /\ trace' = Append(trace, "HTTPClient")
    /\ LET r == makeHTTPClient(opts.PrometheusAuthInCluster, opts.PrometheusAuthConf,
                               env.inCluster)
       IN /\ ioLog' = ioLog \o r.io
          /\ objs' = [objs EXCEPT !.promHTTPClient = r.client]
          /\ Goto("PromClient")
    /\ UNCHANGED <<flags, opts, calls, env, loops, stopClosed, closeCalls, listener,
                   shutdowns>>

\* makeHTTPClient(o.PrometheusAuthInCluster, o.PrometheusAuthConf)
HTTPClient ==
    /\ pc = "HTTPClient"
    /\ trace' = Append(trace, "HTTPClient")
    /\ LET r == makeHTTPClient(opts.PrometheusAuthInCluster, opts.PrometheusAuthConf,
                               env.inCluster)
       IN /\ ioLog' = ioLog \o r.io
          /\ IF r.err = NoErr
             THEN /\ objs' = [objs EXCEPT !.promHTTPClient = r.client]
                  /\ Goto("PromClient")
             ELSE /\ objs' = objs
                  /\ Return(r.err)
    /\ UNCHANGED <<flags, opts, calls, env, loops, stopClosed, closeCalls, listener,
                   shutdowns>>

\* The TODO of start.go:166 done: the query is stripped from the URL the
\* clients get.
PromClient_StripQuery ==
    /\ pc = "PromClient"
    /\ trace' = Append(trace, "PromClient")
    /\ LET stripped == [objs.baseURL EXCEPT !.rawQuery = <<>>, !.forceQuery = FALSE]
           generic == [kind |-> "genericAPIClient", client |-> objs.promHTTPClient,
                       baseURL |-> stripped]
           instrumented == [kind |-> "instrumentedClient", inner |-> generic,
                            serverName |-> URLString(stripped)]
       IN objs' = [objs EXCEPT !.genericPromClient = generic,
                               !.instrumentedGenericPromClient = instrumented,
                               !.promClient = [kind |-> "promClient",
                                               inner |-> instrumented]]
    /\ Goto("Provider")
    /\ UNCHANGED <<flags, opts, calls, env, ioLog, loops, stopClosed, closeCalls,
                   listener, shutdowns>>

\* prom.NewGenericAPIClient, mprom.InstrumentGenericAPIClient,
\* prom.NewClientForAPI
PromClient ==
    /\ pc = "PromClient"
    /\ trace' = Append(trace, "PromClient")
    /\ LET generic == [kind |-> "genericAPIClient", client |-> objs.promHTTPClient,
                       baseURL |-> objs.baseURL]
           instrumented == [kind |-> "instrumentedClient", inner |-> generic,
                            serverName |-> URLString(objs.baseURL)]
       IN objs' = [objs EXCEPT !.genericPromClient = generic,
                               !.instrumentedGenericPromClient = instrumented,
                               !.promClient = [kind |-> "promClient",
                                               inner |-> instrumented]]
    /\ Goto("Provider")
    /\ UNCHANGED <<flags, opts, calls, env, ioLog, loops, stopClosed, closeCalls,
                   listener, shutdowns>>

\* What the provider does on construction (section 4.4): it schedules its
\* periodic relist, to end when the stop channel it was given is closed.
RelistLoopOnConstruction == [state |-> "running", stop |-> "stopCh", ticks |-> 0]

\* cmprov.NewPrometheusProvider(dynamicMapper, clientPool, promClient,
\* o.LabelPrefix, o.MetricsRelistInterval, o.RateInterval, stopCh): the
\* provider starts its relist loop on construction, on stopCh.
Provider ==
    /\ pc = "Provider"
    /\ trace' = Append(trace, "Provider")
    /\ objs' = [objs EXCEPT !.cmProvider =
                    [kind |-> "provider", mapper |-> objs.dynamicMapper,
                     pool |-> objs.clientPool, promClient |-> objs.promClient,
                     labelPrefix |-> opts.LabelPrefix,
                     relistInterval |-> opts.MetricsRelistInterval,
                     rateInterval |-> opts.RateInterval]]
    /\ loops' = [loops EXCEPT !["relist"] = RelistLoopOnConstruction]
    /\ Goto("ServerNew")
    /\ UNCHANGED <<flags, opts, calls, env, ioLog, stopClosed, closeCalls, listener,
                   shutdowns>>

\* server, _ := config.Complete().New(...): the error of start.go:182 dropped.
ServerNew_IgnoreErr ==
    /\ pc = "ServerNew"
    /\ trace' = Append(trace, "ServerNew")
    /\ objs' = [objs EXCEPT !.server =
                    [kind |-> "server", config |-> objs.config,
                     provider |-> objs.cmProvider]]
    /\ Goto("Run")
    /\ UNCHANGED <<flags, opts, calls, env, ioLog, loops, stopClosed, closeCalls,
                   listener, shutdowns>>

\* config.Complete().New("prometheus-custom-metrics-adapter", cmProvider)
ServerNew ==
    /\ pc = "ServerNew"
    /\ trace' = Append(trace, "ServerNew")
    /\ IF env.serverNewOK
       THEN /\ objs' = [objs EXCEPT !.server =
                            [kind |-> "server", config |-> objs.config,
                             provider |-> objs.cmProvider]]
            /\ Goto("Run")
       ELSE /\ objs' = objs
            /\ Return(ErrServerNew)
    /\ UNCHANGED <<flags, opts, calls, env, ioLog, loops, stopClosed, closeCalls,
                   listener, shutdowns>>

\* server.GenericAPIServer.PrepareRun().Run(stopCh), up to the point where
\* it blocks on stopCh: the listener is started, or the call returns the
\* error of starting it.
Run ==
    /\ pc = "Run"
    /\ trace' = Append(trace, "Run")
    /\ IF env.listenOK
       THEN /\ listener' = "listening"
            /\ loops' = [loops EXCEPT !["httpServing"] =
                            [state |-> "running", stop |-> "stopCh", ticks |-> 0]]
            /\ Goto("serving")
       ELSE /\ listener' = listener
            /\ loops' = loops
            /\ Return(ErrServe)
    /\ UNCHANGED <<flags, opts, calls, env, ioLog, objs, stopClosed, closeCalls,
                   shutdowns>>

\* Run returning whether or not stopCh is closed.
RunReturns_NoWait ==
    /\ pc = "serving"
    /\ listener' = "closed"
    /\ shutdowns' = shutdowns + 1
    /\ loops' = [loops EXCEPT !["httpServing"].state = "exited"]
    /\ Return(NoErr)
    /\ UNCHANGED <<flags, opts, calls, env, trace, ioLog, objs, stopClosed, closeCalls>>

\* Run running the listener's shutdown once for every close of the stop
\* signal it has been told of.
RunReturns_PerClose ==
    /\ pc = "serving"
    /\ stopClosed
    /\ listener' = "closed"
    /\ shutdowns' = shutdowns + closeCalls
    /\ loops' = [loops EXCEPT !["httpServing"].state = "exited"]
    /\ Return(NoErr)
    /\ UNCHANGED <<flags, opts, calls, env, trace, ioLog, objs, stopClosed, closeCalls>>

\* Run(stopCh) unblocks once stopCh is closed: the listener is shut down and
\* the call returns nil.
RunReturns ==
    /\ pc = "serving"
    /\ stopClosed
    /\ listener' = "closed"
    /\ shutdowns' = shutdowns + 1
    /\ loops' = [loops EXCEPT !["httpServing"].state = "exited"]
    /\ Return(NoErr)
    /\ UNCHANGED <<flags, opts, calls, env, trace, ioLog, objs, stopClosed, closeCalls>>

(***************************************************************************)
(* The stop channel and the loops                                          *)
(***************************************************************************)

\* The hosting process closes stopCh.
CloseStop ==
    /\ ~stopClosed
    /\ stopClosed' = TRUE
    /\ closeCalls' = closeCalls + 1
    /\ UNCHANGED <<flags, opts, calls, env, pc, trace, result, ioLog, objs, loops,
                   listener, shutdowns>>

\* The hosting process closes the stop signal again: the close is idempotent
\* (section 5), the channel stays closed and nobody is told anything new.
CloseStopAgain ==
    /\ stopClosed
    /\ closeCalls < MaxCloses
    /\ closeCalls' = closeCalls + 1
    /\ UNCHANGED <<flags, opts, calls, env, pc, trace, result, ioLog, objs, loops,
                   stopClosed, listener, shutdowns>>

\* Whether loop l sees that it has to stop.
StopObserved(l) == loops[l].stop = "stopCh" /\ stopClosed

\* One period of a periodic loop: a discovery refresh, a relist.
LoopTick(l) ==
    /\ l \in {"discoveryRefresh", "relist"}
    /\ loops[l].state = "running"
    /\ ~StopObserved(l)
    /\ loops[l].ticks < MaxTicks
    /\ loops' = [loops EXCEPT ![l].ticks = @ + 1]
    /\ UNCHANGED <<flags, opts, calls, env, pc, trace, result, ioLog, objs, stopClosed,
                   closeCalls, listener, shutdowns>>

\* A periodic loop ends when the channel it was given is closed.
LoopExit(l) ==
    /\ l \in {"discoveryRefresh", "relist"}
    /\ loops[l].state = "running"
    /\ StopObserved(l)
    /\ loops' = [loops EXCEPT ![l].state = "exited"]
    /\ UNCHANGED <<flags, opts, calls, env, pc, trace, result, ioLog, objs, stopClosed,
                   closeCalls, listener, shutdowns>>

Next ==
    \/ Complete
    \/ Validate
    \/ CallRun
    \/ Config
    \/ ClientConfig
    \/ DiscoveryClient
    \/ RESTMapper
    \/ ClientPool
    \/ ParseURL
    \/ HTTPClient
    \/ PromClient
    \/ Provider
    \/ ServerNew
    \/ Run
    \/ RunReturns
    \/ CloseStop
    \/ CloseStopAgain
    \/ \E l \in LoopNames : LoopTick(l)
    \/ \E l \in LoopNames : LoopExit(l)

Spec == Init /\ [][Next]_vars

\* The command on every combination of flags, in an environment whose
\* collaborators answer.
CommandSpec == InitCommand /\ [][Next]_vars

\* Run's select on stopCh and the loops' selects are scheduled once the
\* channel is closed.
FairSpec ==
    /\ Spec
    /\ WF_vars(RunReturns)
    /\ \A l \in LoopNames : WF_vars(LoopExit(l))

(***************************************************************************)
(* Vocabulary of the properties                                            *)
(***************************************************************************)
Steps ==
    {"Config", "ClientConfig", "DiscoveryClient", "RESTMapper", "ClientPool", "ParseURL",
     "HTTPClient", "PromClient", "Provider", "ServerNew", "Run"}

Executed(step) == \E i \in 1..Len(trace) : trace[i] = step

LastStep == IF trace = <<>> THEN "none" ELSE trace[Len(trace)]

Returned == pc = "returned"

Failed == Returned /\ result # NoErr

Performed(op) == \E i \in 1..Len(ioLog) : ioLog[i] = op

TimesPerformed(op) == Cardinality({i \in 1..Len(ioLog) : ioLog[i] = op})

BothAuthSet == opts.PrometheusAuthInCluster /\ opts.PrometheusAuthConf # ""

NoAuthSet == ~opts.PrometheusAuthInCluster /\ opts.PrometheusAuthConf = ""

PromIO == {IOPromLoadKubeConfig, IOPromInCluster, IOPromTransportFor}

\* The error a statement returns on these options in this environment, NoErr
\* when it goes through.
StepError(step) ==
    LET lister == ListerClientConfig(opts.RemoteKubeConfigFile, env.inCluster)
    IN CASE step = "Config" -> IF env.configOK THEN NoErr ELSE ErrConfig
         [] step = "ClientConfig" -> IF lister.err THEN ErrCredentialLoad ELSE NoErr
         [] step = "DiscoveryClient" ->
                IF ~lister.err /\ TransportFor(lister.conf).err
                THEN ErrDiscoveryClient ELSE NoErr
         [] step = "RESTMapper" -> IF env.discoveryOK THEN NoErr ELSE ErrMapperInit
         [] step = "ParseURL" ->
                IF Parse(opts.PrometheusURL).ok THEN NoErr ELSE ErrInvalidURL
         [] step = "HTTPClient" ->
                makeHTTPClient(opts.PrometheusAuthInCluster, opts.PrometheusAuthConf,
                               env.inCluster).err
         [] step = "ServerNew" -> IF env.serverNewOK THEN NoErr ELSE ErrServerNew
         [] step = "Run" -> IF env.listenOK THEN NoErr ELSE ErrServe
         [] OTHER -> NoErr

\* The order of the startup steps as section 4.5 gives it: configuration,
\* cluster credentials and clients, backend credentials, backend client
\* (with the parse of its URL), provider, server, serving.
SpecOrder ==
    [s \in Steps |->
        CASE s = "Config" -> 1
          [] s \in {"ClientConfig", "DiscoveryClient", "RESTMapper", "ClientPool"} -> 2
          [] s = "HTTPClient" -> 3
          [] s \in {"ParseURL", "PromClient"} -> 4
          [] s = "Provider" -> 5
          [] s = "ServerNew" -> 6
          [] s = "Run" -> 7]

\* The same with the parse of the backend URL ahead of the backend
\* credentials, and the wrapping of the backend client after them.
AmendedOrder ==
    [s \in Steps |->
        CASE s = "Config" -> 1
          [] s \in {"ClientConfig", "DiscoveryClient", "RESTMapper", "ClientPool"} -> 2
          [] s = "ParseURL" -> 3
          [] s = "HTTPClient" -> 4
          [] s = "PromClient" -> 5
          [] s = "Provider" -> 6
          [] s = "ServerNew" -> 7
          [] s = "Run" -> 8]

\* The steps run in the order rank, and a failed run returns the error of the
\* earliest step of that order that fails, having run no later step.
RunsInOrder(rank) ==
    /\ \A i, j \in 1..Len(trace) : i < j => rank[trace[i]] <= rank[trace[j]]
    /\ Failed =>
         \E s \in Steps :
            /\ StepError(s) # NoErr
            /\ \A t \in Steps : StepError(t) # NoErr => rank[s] <= rank[t]
            /\ result = StepError(s)
            /\ LastStep = s
    /\ (Returned /\ result = NoErr) => \A s \in Steps : StepError(s) = NoErr

(***************************************************************************)
(* C1                                                                      *)
(***************************************************************************)

\* C1, as stated: the startup steps run in the order configuration, cluster
\* credentials, backend credentials (makeHTTPClient), backend client including
\* the parse of its URL, provider, server, serving; a failed run returns the
\* error of the earliest failing step of that order, so ConfigConflict wins
\* over an unparsable URL.
C1_OrderAsStated == RunsInOrder(SpecOrder)

\* C1, amended: the same with the parse of the backend URL before
\* makeHTTPClient; every run executes a prefix of Config, ClientConfig,
\* DiscoveryClient, RESTMapper, ClientPool, ParseURL, HTTPClient, PromClient,
\* Provider, ServerNew, Run and a failed run returns the error of the earliest
\* failing step of that order, so an unparsable URL wins over ConfigConflict.
C1_OrderAmended ==
    /\ RunsInOrder(AmendedOrder)
    /\ \A i, j \in 1..Len(trace) : i < j => trace[i] # trace[j]
    /\ (BothAuthSet /\ ~Parse(opts.PrometheusURL).ok /\ Failed
            /\ Executed("ParseURL")) => result = ErrInvalidURL

\* A run with both backend auth options set and an unparsable URL that got
\* as far as the backend steps.
C1_Witness ==
    /\ BothAuthSet
    /\ ~Parse(opts.PrometheusURL).ok
    /\ Returned
    /\ LastStep = "ParseURL"
    /\ result = ErrInvalidURL

(***************************************************************************)
(* C2                                                                      *)
(***************************************************************************)

\* C2: once makeHTTPClient has been called with inClusterAuth true and a
\* non-empty kubeConfigPath, the call has failed with ConfigConflict, no
\* client exists and none of the kubeconfig load, the in-cluster lookup and
\* the transport construction has been performed for the backend.
C2_ConflictNoIO ==
    (Executed("HTTPClient") /\ BothAuthSet) =>
        /\ Returned
        /\ LastStep = "HTTPClient"
        /\ result = ErrConfigConflict
        /\ objs.promHTTPClient = Nil
        /\ \A op \in PromIO : ~Performed(op)

C2_Witness ==
    /\ Executed("HTTPClient")
    /\ BothAuthSet
    /\ result = ErrConfigConflict
    /\ FileSystem(opts.PrometheusAuthConf) = "ok"
    /\ env.inCluster = "ok"

(***************************************************************************)
(* C3                                                                      *)
(***************************************************************************)

C4_DefaultClientNoIO ==
    (Executed("HTTPClient") /\ NoAuthSet) =>
        /\ objs.promHTTPClient = DefaultClient
        /\ ~(Returned /\ LastStep = "HTTPClient")
        /\ \A op \in PromIO : ~Performed(op)

C4_Witness ==
    /\ Executed("HTTPClient")
    /\ NoAuthSet
    /\ objs.promHTTPClient = DefaultClient
    /\ pc = "PromClient"

(***************************************************************************)
(* C5                                                                      *)
(***************************************************************************)

\* C5: once makeHTTPClient has been called with exactly one auth option set,
\* the kubeconfig file has been loaded iff kubeConfigPath is non-empty and the
\* in-cluster environment consulted iff inClusterAuth is true, each once; a
\* source that does not load gives CredentialLoadError, a nil client and no
\* transport construction; a transport that cannot be built gives
\* TransportError and a nil client; otherwise the client is non-nil and its
\* transport is the one of the loaded credentials; exactly one of client and
\* error is non-nil.
C5_OneSource ==
    (Executed("HTTPClient") /\ ~BothAuthSet /\ ~NoAuthSet) =>
        LET viaFile == opts.PrometheusAuthConf # ""
            loaded == IF viaFile THEN LoadKubeConfig(opts.PrometheusAuthConf)
                      ELSE InClusterConfig(env.inCluster)
            failedHere == Returned /\ LastStep = "HTTPClient"
        IN /\ TimesPerformed(IOPromLoadKubeConfig) = (IF viaFile THEN 1 ELSE 0)
           /\ TimesPerformed(IOPromInCluster) =
                  (IF opts.PrometheusAuthInCluster THEN 1 ELSE 0)
           /\ loaded.err =>
                 /\ failedHere
                 /\ result = ErrCredentialLoad
                 /\ objs.promHTTPClient = Nil
                 /\ ~Performed(IOPromTransportFor)
           /\ (~loaded.err /\ loaded.conf.tls # "ok") =>
                 /\ failedHere
                 /\ result = ErrTransport
                 /\ objs.promHTTPClient = Nil
                 /\ TimesPerformed(IOPromTransportFor) = 1
           /\ (~loaded.err /\ loaded.conf.tls = "ok") =>
                 /\ ~failedHere
                 /\ objs.promHTTPClient # Nil
                 /\ objs.promHTTPClient.transport =
                        [kind |-> "transport", from |-> loaded.conf]
                 /\ TimesPerformed(IOPromTransportFor) = 1
           /\ failedHere <=> (objs.promHTTPClient = Nil)

\* The kubeconfig given for the backend is missing although the in-cluster
\* environment is there: the call has failed without looking at the latter.
C5_Witness ==
    /\ Executed("HTTPClient")
    /\ ~opts.PrometheusAuthInCluster
    /\ opts.PrometheusAuthConf = MissingKubeConfig
    /\ env.inCluster = "ok"
    /\ opts.RemoteKubeConfigFile # ""
    /\ result = ErrCredentialLoad

(***************************************************************************)
(* C6                                                                      *)
(***************************************************************************)

\* C6: once the lister client config has been resolved, exactly one source
\* has been consulted, once: the kubeconfig file when RemoteKubeConfigFile is
\* non-empty, the in-cluster environment when it is empty; when that source
\* fails the run has returned CredentialLoadError and no discovery client,
\* mapper, pool, backend client or provider exists.
C6_OneListerSource ==
    Executed("ClientConfig") =>
        LET viaFile == opts.RemoteKubeConfigFile # ""
            attempted == IF viaFile THEN LoadKubeConfig(opts.RemoteKubeConfigFile)
                         ELSE InClusterConfig(env.inCluster)
        IN /\ TimesPerformed(IOClusterLoadKubeConfig) = (IF viaFile THEN 1 ELSE 0)
           /\ TimesPerformed(IOClusterInCluster) = (IF viaFile THEN 0 ELSE 1)
           /\ attempted.err =>
                 /\ Returned
                 /\ LastStep = "ClientConfig"
                 /\ result = ErrCredentialLoad
                 /\ objs.clientConfig = Nil
                 /\ objs.discoveryClient = Nil
                 /\ objs.dynamicMapper = Nil
                 /\ objs.clientPool = Nil
                 /\ objs.promHTTPClient = Nil
                 /\ objs.genericPromClient = Nil
                 /\ objs.promClient = Nil
                 /\ objs.cmProvider = Nil
                 /\ \A l \in LoopNames : loops[l].state = "none"
           /\ ~attempted.err => objs.clientConfig = attempted.conf

\* The explicit file is missing while the in-cluster environment would have
\* answered.
C6_Witness ==
    /\ opts.RemoteKubeConfigFile = MissingKubeConfig
    /\ env.inCluster = "ok"
    /\ Returned
    /\ LastStep = "ClientConfig"
    /\ result = ErrCredentialLoad

(***************************************************************************)
(* C7                                                                      *)
(***************************************************************************)

C7_State ==
    /\ \A i, j \in 1..Len(trace) : i < j => trace[i] # trace[j]
    /\ \A s \in Steps :
          (Executed(s) /\ StepError(s) # NoErr) =>
              /\ Returned
              /\ LastStep = s
              /\ result = StepError(s)
              /\ listener = "none"
              /\ loops["httpServing"].state = "none"
    /\ Failed => StepError(LastStep) = result

\* C7: every startup step is executed at most once; a step that fails is the
\* last one executed, its error is the one returned, and the listener is never
\* started; after the return no step is executed and nothing is constructed.
C7_FailFast ==
    /\ []C7_State
    /\ [][Returned => (trace' = trace /\ objs' = objs /\ listener' = listener
                          /\ ioLog' = ioLog /\ result' = result /\ Returned')]_vars

\* Server construction failed with everything before it done.
C7_Witness ==
    /\ Returned
    /\ result = ErrServerNew
    /\ objs.cmProvider # Nil
    /\ listener = "none"
    /\ Len(trace) = 10

(***************************************************************************)
(* C8                                                                      *)
(***************************************************************************)

\* C8, as stated: when a run has failed with InvalidURL on a PrometheusURL
\* that does not parse, no network operation has been performed (no cluster
\* discovery call), and no backend client has been constructed.
C8_BeforeAnyNetworkIO ==
    (~Parse(opts.PrometheusURL).ok /\ Returned /\ result = ErrInvalidURL) =>
        /\ \A op \in NetworkIO : ~Performed(op)
        /\ objs.genericPromClient = Nil
        /\ objs.promClient = Nil

\* C8, amended: a PrometheusURL that does not parse is caught before anything
\* is done for the backend: no backend credential is loaded, no transport and
\* no backend client is constructed, no provider is composed and the server
\* never listens; the run that gets to the parse returns InvalidURL there, and
\* the one network operation performed by then is the type mapper's first
\* discovery call.
C8_BeforeBackendIO ==
    ~Parse(opts.PrometheusURL).ok =>
        /\ \A op \in PromIO : ~Performed(op)
        /\ objs.baseURL = Nil
        /\ objs.promHTTPClient = Nil
        /\ objs.genericPromClient = Nil
        /\ objs.instrumentedGenericPromClient = Nil
        /\ objs.promClient = Nil
        /\ objs.cmProvider = Nil
        /\ listener = "none"
        /\ Executed("ParseURL") =>
              /\ Returned
              /\ LastStep = "ParseURL"
              /\ result = ErrInvalidURL
              /\ TimesPerformed(IODiscoveryCall) = 1
              /\ objs.dynamicMapper # Nil

C8_Witness ==
    /\ ~Parse(opts.PrometheusURL).ok
    /\ Returned
    /\ result = ErrInvalidURL
    /\ Performed(IODiscoveryCall)
    /\ NoAuthSet

(***************************************************************************)
(* C9                                                                      *)
(***************************************************************************)

\* C9: a serving runner returns only with stopCh closed, and then with the
\* listener shut down and a nil error; once stopCh is closed while it serves,
\* it eventually shuts the listener down and returns.
C9_ServesUntilStopped ==
    /\ [][pc = "serving" /\ pc' # "serving" =>
             (stopClosed /\ Returned' /\ listener' = "closed" /\ result' = NoErr)]_vars
    /\ [](pc = "serving" => (listener = "listening" /\ result = "running"))
    /\ (pc = "serving" /\ stopClosed) ~> (Returned /\ listener = "closed")

C9_Witness ==
    /\ Returned
    /\ result = NoErr
    /\ listener = "closed"
    /\ stopClosed
    /\ Len(trace) = 11

(***************************************************************************)
(* C10                                                                     *)
(***************************************************************************)

\* C10: stopCh is propagated to every background loop of the run: each of
\* the type mapper's discovery refresh, the provider's relist and HTTP
\* serving, once its component has been constructed, holds stopCh as the
\* channel that ends it.
C10_StopReachesEveryLoop ==
    \A l \in LoopNames :
        loops[l].stop # "unset" => loops[l].stop = "stopCh"

(***************************************************************************)
(* C11                                                                     *)
(***************************************************************************)

C12_MapperNotLazy ==
    /\ (objs.clientPool # Nil \/ objs.cmProvider # Nil \/ pc = "serving") =>
          /\ Performed(IODiscoveryCall)
          /\ env.discoveryOK
          /\ objs.dynamicMapper # Nil
    /\ (Executed("RESTMapper") /\ ~env.discoveryOK) =>
          /\ Returned
          /\ LastStep = "RESTMapper"
          /\ result = ErrMapperInit
          /\ objs.dynamicMapper = Nil
          /\ objs.clientPool = Nil
          /\ objs.genericPromClient = Nil
          /\ objs.promClient = Nil
          /\ objs.cmProvider = Nil

C12_Witness ==
    /\ Executed("RESTMapper")
    /\ ~env.discoveryOK
    /\ Performed(IODiscoveryCall)
    /\ result = ErrMapperInit

(***************************************************************************)
(* C13                                                                     *)
(***************************************************************************)

\* The URL with the letters of its scheme in lower case.
SchemeLowered(raw) ==
    LET c == IndexOf(raw, ":")
    IN [i \in 1..Len(raw) |-> IF i < c THEN ToLowerChar(raw[i]) ELSE raw[i]]

\* The part of the URL after its first question mark.
QueryOf(raw) ==
    LET q == IndexOf(raw, "?")
    IN IF q > 0 THEN SubSeq(raw, q + 1, Len(raw)) ELSE <<>>

WrappedInOrder ==
    /\ objs.genericPromClient.kind = "genericAPIClient"
    /\ objs.genericPromClient.client = objs.promHTTPClient
    /\ objs.instrumentedGenericPromClient.kind = "instrumentedClient"
    /\ objs.instrumentedGenericPromClient.inner = objs.genericPromClient
    /\ objs.promClient.kind = "promClient"
    /\ objs.promClient.inner = objs.instrumentedGenericPromClient

SecondClose == stopClosed /\ closeCalls' = closeCalls + 1

C15_MetricsEnabled ==
    /\ objs.config # Nil => objs.config.EnableMetrics
    /\ (Executed("Config") /\ env.configOK) => objs.config # Nil
    /\ (objs.server # Nil \/ pc \in {"Run", "serving"} \/ listener # "none") =>
          /\ objs.server # Nil
          /\ objs.server.config = objs.config
          /\ objs.server.config.EnableMetrics

C15_Witness ==
    /\ pc = "serving"
    /\ objs.server # Nil
    /\ objs.server.config.EnableMetrics

(***************************************************************************)
(* C16                                                                     *)
(***************************************************************************)

NoFlagGiven == \A f \in DOMAIN flags : flags[f] = {}

\* C16: with no flag given the options are the defaults (intervals in
\* minutes: relist 10, rate 5, discovery 10; URL "https://localhost"; in-
\* cluster auth off; both kubeconfig paths and the label prefix empty); a
\* flag that is given sets its own field and no other; the mapper is
\* constructed with the discovery interval of the options and the provider
\* with their label prefix, relist interval and rate interval; and no step of
\* the run changes the options.
C16_DefaultsAndOverrides ==
    /\ [](NoFlagGiven =>
             opts = [RemoteKubeConfigFile |-> "",
                     MetricsRelistInterval |-> 10,
                     RateInterval |-> 5,
                     DiscoveryInterval |-> 10,
                     PrometheusURL |->
                         <<"h", "t", "t", "p", "s", ":", "/", "/",
                           "l", "o", "c", "a", "l", "h", "o", "s", "t">>,
                     PrometheusAuthInCluster |-> FALSE,
                     PrometheusAuthConf |-> "",
                     LabelPrefix |-> ""])
    /\ [](/\ opts.RemoteKubeConfigFile = FlagValue(flags.lister_kubeconfig, "")
          /\ opts.MetricsRelistInterval = FlagValue(flags.metrics_relist_interval, 10)
          /\ opts.RateInterval = FlagValue(flags.rate_interval, 5)
          /\ opts.DiscoveryInterval = FlagValue(flags.discovery_interval, 10)
          /\ opts.PrometheusURL =
                 FlagValue(flags.prometheus_url,
                           <<"h", "t", "t", "p", "s", ":", "/", "/",
                             "l", "o", "c", "a", "l", "h", "o", "s", "t">>)
          /\ opts.PrometheusAuthInCluster =
                 FlagValue(flags.prometheus_auth_incluster, FALSE)
          /\ opts.PrometheusAuthConf = FlagValue(flags.prometheus_auth_config, "")
          /\ opts.LabelPrefix = FlagValue(flags.label_prefix, ""))
    /\ [](objs.dynamicMapper # Nil =>
             objs.dynamicMapper.refreshInterval = opts.DiscoveryInterval)
    /\ [](objs.cmProvider # Nil =>
             /\ objs.cmProvider.labelPrefix = opts.LabelPrefix
             /\ objs.cmProvider.relistInterval = opts.MetricsRelistInterval
             /\ objs.cmProvider.rateInterval = opts.RateInterval)
    /\ [][opts' = opts /\ flags' = flags]_vars

\* --rate-interval and --label-prefix are given and --metrics-relist-interval
\* and --discovery-interval are not: the provider is composed with the given
\* rate interval and prefix and the default relist interval, the mapper with
\* the default discovery interval.
C16_Witness ==
    /\ flags.rate_interval = {3}
    /\ flags.label_prefix = {"kube_"}
    /\ flags.metrics_relist_interval = {}
    /\ flags.discovery_interval = {}
    /\ objs.cmProvider # Nil
    /\ objs.cmProvider.rateInterval = 3
    /\ objs.cmProvider.relistInterval = 10
    /\ objs.cmProvider.labelPrefix = "kube_"
    /\ objs.dynamicMapper.refreshInterval = 10

(***************************************************************************)
(* C17                                                                     *)
(***************************************************************************)

HandlerOrder == <<"Complete", "Validate", "RunCustomMetricsAdapterServer">>

\* The runner has been entered.
RunnerEntered == pc \notin {"Complete", "Validate", "CallRun", "rejected"}

\* C17: the handler calls Complete, Validate and the runner in that order,
\* each at most once; the runner is entered only after Complete and Validate
\* both returned nil; and the handler returns the error of the first of the
\* three that fails: Complete's without calling Validate, Validate's without
\* calling the runner, else what the runner returns.
C17_HandlerOrder ==
    /\ Len(calls) <= 3
    /\ calls = SubSeq(HandlerOrder, 1, Len(calls))
    /\ (RunnerEntered \/ trace # <<>>) =>
           /\ calls = HandlerOrder
           /\ env.completeOK
           /\ env.validateOK
    /\ pc = "rejected" =>
           /\ trace = <<>>
           /\ ioLog = <<>>
           /\ IF ~env.completeOK
              THEN result = ErrComplete /\ calls = <<"Complete">>
              ELSE /\ ~env.validateOK
                   /\ result = ErrValidate
                   /\ calls = <<"Complete", "Validate">>
    /\ (Len(calls) >= 1 /\ ~env.completeOK) => pc = "rejected"
    /\ (Len(calls) >= 2 /\ ~env.validateOK) => pc = "rejected"
    /\ Returned => calls = HandlerOrder /\ result = StepError(LastStep)

\* Complete passed and Validate failed: the handler returned Validate's error
\* and the runner was not called.
C17_Witness ==
    /\ pc = "rejected"
    /\ result = ErrValidate
    /\ calls = <<"Complete", "Validate">>
    /\ trace = <<>>

(***************************************************************************)
(* C18                                                                     *)
(***************************************************************************)

\* C18: when the runner has returned a startup error, no loop started on
\* stopCh during the run is still running; in particular the provider's
\* relist loop is not left running, with stopCh open, after a failed server
\* construction.
C18_NoLoopAfterStartupError ==
    Failed => \A l \in LoopNames :
                 loops[l].stop = "stopCh" => loops[l].state # "running"

(***************************************************************************)
(* C19                                                                     *)
(***************************************************************************)

\* The statements of the runner up to the composition of the provider.
StartupBeforeProvider ==
    {"Config", "ClientConfig", "DiscoveryClient", "RESTMapper", "ClientPool", "ParseURL",
     "HTTPClient", "PromClient"}

\* C19: with stopCh closed, a startup statement before the composition of
\* the provider is left only by executing it in full, with its own outcome:
\* the runner goes on to the next statement or returns the error of that
\* statement, never nil; and as long as the statement has not completed the
\* runner stays at it, stopCh closed or not.
C19_StartupIgnoresStop ==
    /\ [][(stopClosed /\ pc \in StartupBeforeProvider /\ pc' # pc) =>
             /\ trace' = Append(trace, pc)
             /\ IF StepError(pc) = NoErr
                THEN result' = "running" /\ ~Returned'
                ELSE result' = StepError(pc) /\ Returned']_vars
    /\ [][(pc \in StartupBeforeProvider /\ trace' = trace) => pc' = pc]_vars
    /\ []((Returned /\ result = NoErr) => Executed("Run"))

\* stopCh is closed and the runner is about to compose the provider, all
\* eight statements before it executed.
C19_Witness ==
    /\ stopClosed
    /\ pc = "Provider"
    /\ Len(trace) = 8
    /\ loops["relist"].state = "none"

====
